---- MODULE Spec2Model ----
(***************************************************************************)
(* Build-and-deploy orchestration of kagenti's admin UI:                   *)
(*   src/kagenti/ui/lib/build_utils.py                                     *)
(*     trigger_and_monitor_build                  (lines 418-667)          *)
(*     trigger_and_monitor_deployment_from_image  (lines 669-845)          *)
(* One invocation of one of the two functions is modelled as a state       *)
(* machine; the cluster (Kubernetes API server) and the caller are the     *)
(* environment (Spec, and LiveSpec with fairness of the function's steps). *)
(* PairSpec runs two invocations of trigger_and_monitor_build at once.     *)
(* RegSpec is register_client of                                           *)
(*   src/kagenti/auth/client-registration/client_registration.py (74-95),  *)
(* called repeatedly against one Keycloak realm.                           *)
(* IdpSpec is get_identity_provider of                                     *)
(*   src/kagenti/identity/factory.py (16-68).                              *)
(* SecSpec is create_or_update_secret of                                   *)
(*   src/kagenti/installer/app/utils.py (204-223) and of                   *)
(*   src/kagenti/auth/phoenix-oauth-secret/phoenix_oauth_secret.py         *)
(*   (242-270), the latter as main calls it (412-461), run after run.      *)
(***************************************************************************)
EXTENDS Integers, Sequences, FiniteSets, TLC

(* ----------------------------------------------------------------------- *)
(* Bounds.  The source sets both retry budgets to 120 (build_utils.py:538, *)
(* :602, :786); the model scales them down so that exhaustion is reached.  *)
(* ----------------------------------------------------------------------- *)
max_retries == 4
max_deployment_retries == 3

(* ----------------------------------------------------------------------- *)
(* Values                                                                  *)
(* ----------------------------------------------------------------------- *)
Phases == {"Pending", "Running", "Succeeded", "Failed", "Error", "Ready", "Unknown"}

\* A field that the object read from the cluster does not carry.
Absent == "<absent>"

\* dict.get(key, default) on a field that may be missing.
Get(field, default) == IF field = Absent THEN default ELSE field

\* Variant: "Failed" left out of the build list.
BuildTerminal_NoFailed == {"Succeeded", "Error"}

\* Variant: "Failed" left out of the deploy list.
DeployTerminal_NoFailed == {"Ready", "Error"}

\* The literal lists of the two loop conditions and break tests.
BuildTerminal == {"Succeeded", "Failed", "Error"}
DeployTerminal == {"Ready", "Failed", "Error"}

\* Characters of a suggested resource name: a lower-case letter, an
\* upper-case letter, a character that is invalid in a resource name, a hyphen.
NameSuggestions == {<< >>, <<"_">>, <<"A", "_">>, <<"a", "-", "b">>}

\* Image references / repository URLs, as sequences of tokens.
GitUrl == <<"g", "/", "r">>
ImageUrls == {<<"r", "/", "i", ":", "t">>, <<"r", "/", "i">>, <<"i", ":", "t">>}

ResourceTypes == {"agent", "tool", "other"}

(* ----------------------------------------------------------------------- *)
(* Pure helpers                                                            *)
(* ----------------------------------------------------------------------- *)
Lower(c) == IF c = "A" THEN "a" ELSE c

ValidChar(c) == c \in {"a", "b", "-"}

RECURSIVE LStrip(_, _)
LStrip(s, c) == IF s # << >> /\ Head(s) = c THEN LStrip(Tail(s), c) ELSE s

RECURSIVE RStrip(_, _)
RStrip(s, c) ==
    IF s # << >> /\ s[Len(s)] = c THEN RStrip(SubSeq(s, 1, Len(s) - 1), c) ELSE s

Strip(s, c) == RStrip(LStrip(s, c), c)

\* utils.sanitize_for_k8s_name: lower-case, every character that is not valid
\* in a resource name becomes a hyphen, hyphens are stripped from both ends.
sanitize_for_k8s_name(name) ==
    Strip([i \in 1..Len(name) |->
              IF ValidChar(Lower(name[i])) THEN Lower(name[i]) ELSE "-"], "-")

Count(s, c) == Cardinality({i \in 1..Len(s) : s[i] = c})

LastIndex(s, c) == CHOOSE i \in 1..Len(s) : s[i] = c /\ \A j \in (i+1)..Len(s) : s[j] # c

\* parse_image_url: "ValueError" when there is no ':' or, after the tag is
\* split off at the last ':', fewer than two '/'-separated parts remain.
parse_image_url(url) ==
    IF Count(url, ":") = 0 THEN "ValueError"
    ELSE LET base == Strip(SubSeq(url, 1, LastIndex(url, ":") - 1), "/")
         IN IF Count(base, "/") + 1 < 2 THEN "ValueError" ELSE "ok"

(* ----------------------------------------------------------------------- *)
(* State                                                                   *)
(* ----------------------------------------------------------------------- *)
VARIABLES
    fn,                       \* which function runs: "build" or "image"
    custom_obj_api,           \* argument: the client is supplied (TRUE) or None
    core_v1_api,              \* argument: the client is supplied (TRUE) or None
    resource_name_suggestion, \* argument
    resource_type,            \* argument, after .lower()
    repo_url,                 \* argument
    git_user_secret,          \* what get_secret_data returns is truthy
    pc,                       \* position in the function
    k8s_resource_name,        \* local
    cr_body,                  \* local build_cr_body / cr_body
    current_build_status,     \* local
    retries,                  \* local
    final_deployment_phase,   \* local
    deployment_retries,       \* local
    result,                   \* "none" while running; "True", "False", or the exception raised
    cluster,                  \* the resource (namespace, name): "absent", "foreign", "ours"
    lastReport,               \* last message given to st_object / status_placeholder
    creates,                  \* create_namespaced_custom_object calls issued
    createOutcome,            \* how the create call ended ("none": not called)
    secretReads,              \* get_secret_data calls issued
    buildGets,                \* get_namespaced_custom_object calls issued by the build loop
    deployGets,               \* get_namespaced_custom_object calls issued by a deploy loop
    sleeps,                   \* time.sleep(POLL_INTERVAL_SECONDS) calls
    lastBuildResp,            \* what the last build-loop read yielded
    lastDeployResp,           \* what the last deploy-loop read yielded
    buildAllRunning,          \* every build-loop read so far yielded phase Running
    cancelRequested,          \* the caller has asked for cancellation
    getsAtCancel,             \* reads issued when cancellation was requested (-1: not requested)
    lastCall,                 \* the last call made on the custom-objects client
    pollReports,              \* messages given to the observer by loop iterations
    lastStatusMsg,            \* the message of the status last read from the cluster
    deployAllRead,            \* every deployment read so far returned an object
    deployReadBuildFailed,    \* a deployment read returned buildStatus.phase Failed or Error
    threads,                  \* two concurrent calls: position, return value, reads made
    frames,                   \* the local variables of the calls
    feeds,                    \* what the cluster answers about each call's resource
    keycloak,                 \* the clients registered in the Keycloak realm
    reg,                      \* register_client: its position, argument and local
    regLog,                   \* register_client: calls made, create_client calls, values returned
    idp,                      \* get_identity_provider: arguments, environment, local, outcome
    secret,                   \* the Kubernetes secret of the given name in the namespace
    cus                       \* create_or_update_secret and its caller: position, locals, outcome

inputs == <<fn, custom_obj_api, core_v1_api, resource_name_suggestion, resource_type,
            repo_url, git_user_secret>>
locals == <<k8s_resource_name, cr_body, current_build_status, retries,
            final_deployment_phase, deployment_retries>>
buildLocals == <<current_build_status, retries>>
deployLocals == <<final_deployment_phase, deployment_retries>>
calls == <<creates, createOutcome, secretReads, buildGets, deployGets, sleeps>>
observed == <<lastBuildResp, lastDeployResp, buildAllRunning, deployAllRead,
              deployReadBuildFailed>>
cancel == <<cancelRequested, getsAtCancel>>
trace == <<lastCall, pollReports, lastStatusMsg>>

runVars == <<fn, custom_obj_api, core_v1_api, resource_name_suggestion, resource_type,
          repo_url, git_user_secret, pc, k8s_resource_name, cr_body,
          current_build_status, retries, final_deployment_phase, deployment_retries,
          result, cluster, lastReport, creates, createOutcome, secretReads, buildGets,
          deployGets,
          sleeps, lastBuildResp, lastDeployResp, buildAllRunning, cancelRequested,
          getsAtCancel, lastCall, pollReports, lastStatusMsg, deployAllRead,
             deployReadBuildFailed>>

pairVars == <<threads, frames, feeds>>

regVars == <<keycloak, reg, regLog>>

idpVars == <<idp>>

secVars == <<secret, cus>>

auxVars == <<idpVars, secVars>>

vars == <<runVars, pairVars, regVars, auxVars>>

Report(level, msg, phase, dphase) ==
    [level |-> level, msg |-> msg, phase |-> phase, dphase |-> dphase, text |-> ""]

\* A message that quotes a status message of the cluster.
Quoting(report, text) == [report EXCEPT !.text = text]

NoReport == Report("-", "-", "-", "-")

\* The messages that count: a step that shows nothing gives NoReport.
ReportCount(report) == IF report = NoReport THEN 0 ELSE 1

\* Calls on the custom-objects client: the verb and the name addressed.
NoCall == [verb |-> "none", name |-> << >>]

\* The local that holds the resource body: not yet bound, None, or a body
\* whose metadata.name is `name`.
Body(kind, name) == [kind |-> kind, name |-> name]

\* The two concurrent calls of the second specification.
Procs == {1, 2}

\* No concurrent calls are being made.
PairIdle ==
    /\ threads = [p \in Procs |-> [pc |-> "idle", result |-> "none", gets |-> 0,
                                   exit |-> "none"]]
    /\ frames = [p \in Procs |-> [current_build_status |-> "Pending", retries |-> 0,
                                  final_deployment_phase |-> "Unknown",
                                  deployment_retries |-> 0]]
    /\ feeds = [p \in Procs |-> [create |-> "created", script |-> << >>]]

\* None: what get_client_id returns when no client has the given clientId.
None == "None"

\* register_client is not being called.
RegIdle ==
    /\ keycloak = {}
    /\ reg = [pc |-> "off", client_id |-> "none", internal_client_id |-> None]
    /\ regLog = [calls |-> 0, creates |-> 0, created |-> 0, raised |-> 0,
                  returned |-> {}, first |-> {}, afterOne |-> {}]

\* Python's None where a provider name is expected, in the shape of a name.
NoName == <<None>>

\* get_identity_provider is not being called.
IdpIdle ==
    idp = [pc |-> "off", provider_name |-> NoName, env |-> NoName, spire_token |-> FALSE,
           sa_token |-> FALSE, name |-> << >>, outcome |-> "none"]

\* base64, as the API server stores a secret's values and as main decodes
\* them.
B64Encode(v) == <<"b64", v>>

B64Decode(e) == e[2]

\* No secret of that name in the namespace.
NoSecret == [present |-> FALSE, has_key |-> FALSE, PHOENIX_SECRET |-> B64Encode(""), body |-> "none"]

\* create_or_update_secret is not being called.
SecIdle ==
    /\ secret = NoSecret
    /\ cus = [pc |-> "off", fn |-> "none", run |-> 0, phoenix_secret |-> "", generated |-> FALSE,
              before |-> NoSecret, interfered |-> FALSE, reported |-> FALSE, outcome |-> "none"]

\* None of the functions of the other modules is being called.
AuxIdle == IdpIdle /\ SecIdle

\* The arguments of one call and the cluster it finds.
RunInputs ==
    /\ fn \in {"build", "image"}
    /\ custom_obj_api \in BOOLEAN
    /\ core_v1_api \in BOOLEAN
    /\ resource_name_suggestion \in NameSuggestions
    /\ resource_type \in ResourceTypes
    /\ repo_url \in (IF fn = "build" THEN {GitUrl} ELSE ImageUrls)
    /\ git_user_secret \in BOOLEAN
    /\ cluster \in {"absent", "foreign"}

\* The call has not run a statement yet.
RunFresh ==
    /\ pc = "check_args"
    /\ k8s_resource_name = << >>
    /\ cr_body = Body("unbound", << >>)
    /\ current_build_status = "Pending"
    /\ retries = 0
    /\ final_deployment_phase = "Unknown"
    /\ deployment_retries = 0
    /\ result = "none"
    /\ lastReport = NoReport
    /\ creates = 0
    /\ createOutcome = "none"
    /\ secretReads = 0
    /\ buildGets = 0
    /\ deployGets = 0
    /\ sleeps = 0
    /\ lastBuildResp = "none"
    /\ lastDeployResp = "none"
    /\ buildAllRunning = TRUE
    /\ cancelRequested = FALSE
    /\ getsAtCancel = -1
    /\ lastCall = NoCall
    /\ pollReports = 0
    /\ lastStatusMsg = ""
    /\ deployAllRead = TRUE
    /\ deployReadBuildFailed = FALSE

\* No single call of trigger_and_monitor_build is being made.
RunIdle ==
    /\ fn = "build"
    /\ custom_obj_api = TRUE
    /\ core_v1_api = TRUE
    /\ git_user_secret = TRUE
    /\ resource_name_suggestion = <<"a", "-", "b">>
    /\ resource_type = "agent"
    /\ repo_url = GitUrl
    /\ cluster = "absent"
    /\ RunFresh

Init == RunInputs /\ RunFresh /\ PairIdle /\ RegIdle /\ AuxIdle

\* return <value> / raise <exception>, after a last message to the observer.
Return(value, report) ==
    /\ pc' = "done"
    /\ result' = value
    /\ lastReport' = report


(* ----------------------------------------------------------------------- *)
(* The environment: what the cluster answers                               *)
(* ----------------------------------------------------------------------- *)
\* create_namespaced_custom_object: the API server rejects a name that is
\* taken with 409; any call may also fail with another API error or with an
\* exception that is no ApiException (connection refused, ...).
CreateOutcomes(c) ==
    IF c = "absent" THEN {"created", "api_error", "exception"}
    ELSE {"already_exists", "api_error", "exception"}

\* Status messages the cluster reports (buildStatus.message,
\* deploymentStatus.deploymentMessage).
Messages == {"m1"}

ApiException(status) ==
    [kind |-> "ApiException", status |-> status, build |-> Absent, deploy |-> Absent,
     bmsg |-> Absent, dmsg |-> Absent]
OtherException ==
    [kind |-> "Exception", status |-> 0, build |-> Absent, deploy |-> Absent,
     bmsg |-> Absent, dmsg |-> Absent]
Object(b, d, bm, dm) ==
    [kind |-> "object", status |-> 200, build |-> b, deploy |-> d, bmsg |-> bm, dmsg |-> dm]

\* get_namespaced_custom_object: 404 when the resource is not there, the
\* object otherwise; any call may fail transiently.  A missing "status",
\* "buildStatus"/"deploymentStatus" or "phase" is an Absent field.
\* The phase fields of the objects read: every build phase (or none) while
\* the deployment has not started or is pending, and every deployment phase
\* (or none) under a build status that says Succeeded or Failed.
PhasePairs ==
    ((Phases \cup {Absent}) \X {Absent, "Pending"})
        \cup ({"Succeeded", "Failed"} \X (Phases \cup {Absent}))

\* The message fields of the objects read: none, the build's, the deployment's.
MessagePairs ==
    {<<Absent, Absent>>} \cup {<<m, Absent>> : m \in Messages}
        \cup {<<Absent, m>> : m \in Messages}

StatusObjects ==
    {Object(p[1], p[2], m[1], m[2]) : p \in PhasePairs, m \in MessagePairs}

GetResponses(c) ==
    {ApiException(500), OtherException} \cup
    (IF c = "absent" THEN {ApiException(404)} ELSE StatusObjects)

\* How a read is remembered (lastBuildResp, lastDeployResp).
RespKind(resp, phase) ==
    IF resp.kind = "object" THEN phase
    ELSE IF resp.kind = "ApiException" /\ resp.status = 404 THEN "404"
    ELSE IF resp.kind = "ApiException" THEN "api_error"
    ELSE "exception"

(* ----------------------------------------------------------------------- *)
(* The tests of the two loops                                              *)
(* ----------------------------------------------------------------------- *)
\* Variant: the budget test off by one (<= for <).
BuildLoopCond_OffByOne(status, n) == status \notin BuildTerminal /\ n <= max_retries

\* while current_build_status not in [...] and retries < max_retries
BuildLoopCond(status, n) == status \notin BuildTerminal /\ n < max_retries

\* Variant: the build loop also stops on the deploy loop's Ready.
BuildBreaks_OnReady(status) == status \in BuildTerminal \cup {"Ready"}

\* if current_build_status in ["Succeeded", "Failed", "Error"]: break
BuildBreaks(status) == status \in BuildTerminal

\* Variant: the timeout is decided by the counter alone.
BuildTimedOut_CounterOnly(status, n) == n >= max_retries

\* if retries >= max_retries and current_build_status not in [...]
BuildTimedOut(status, n) == n >= max_retries /\ status \notin BuildTerminal

\* Variant: the deploy wait is entered unless the build Failed.
DeployGate_NotFailed(status) == status # "Failed"

\* if current_build_status == "Succeeded"
DeployGate(status) == status = "Succeeded"

DeployLoopCond_OffByOne(phase, n) ==
    phase \notin DeployTerminal /\ n <= max_deployment_retries

DeployLoopCond_OneShort(phase, n) ==
    phase \notin DeployTerminal /\ n < max_deployment_retries - 1

\* while final_deployment_phase not in [...] and deployment_retries < max_deployment_retries
DeployLoopCond(phase, n) == phase \notin DeployTerminal /\ n < max_deployment_retries

\* if final_deployment_phase in ["Ready", "Failed", "Error"]: break
DeployBreaks(phase) == phase \in DeployTerminal

(* ----------------------------------------------------------------------- *)
(* The function, step by step                                              *)
(* ----------------------------------------------------------------------- *)
\* Lines 455-469 (701-715): the two client checks and the name.
CheckArgs ==
    /\ pc = "check_args"
    /\ IF ~custom_obj_api
         THEN /\ Return("False", Report("error", "custom_api_not_initialized", "-", "-"))
              /\ UNCHANGED k8s_resource_name
         ELSE IF ~core_v1_api
         THEN /\ Return("False", Report("error", "core_api_not_initialized", "-", "-"))
              /\ UNCHANGED k8s_resource_name
         ELSE /\ k8s_resource_name' = sanitize_for_k8s_name(resource_name_suggestion)
              /\ IF k8s_resource_name' = << >>
                   THEN Return("False", Report("error", "invalid_name", "-", "-"))
                   ELSE /\ pc' = "construct"
                        /\ UNCHANGED <<result, lastReport>>
    /\ UNCHANGED <<pairVars, regVars, auxVars, inputs, cr_body, buildLocals, deployLocals, cluster, calls,
                   observed, cancel, trace>>

\* _construct_agent_resource_body / _construct_tool_resource_body: None when
\* the git user secret cannot be read, ValueError out of parse_image_url when
\* deploying from an image, the body otherwise.  (The Keycloak client secret
\* only adds an entry to the env list of the body.)
ConstructResult_NoSecretCheck ==
    IF fn = "image" /\ parse_image_url(repo_url) = "ValueError"
    THEN Body("ValueError", << >>)
    ELSE Body("body", sanitize_for_k8s_name(k8s_resource_name))

\* Variant: the body is named by the suggestion as given.
ConstructResult_RawName ==
    IF ~git_user_secret THEN Body("None", << >>)
    ELSE IF fn = "image" /\ parse_image_url(repo_url) = "ValueError"
    THEN Body("ValueError", << >>)
    ELSE Body("body", resource_name_suggestion)

ConstructResult ==
    IF ~git_user_secret THEN Body("None", << >>)
    ELSE IF fn = "image" /\ parse_image_url(repo_url) = "ValueError"
    THEN Body("ValueError", << >>)
    ELSE Body("body", sanitize_for_k8s_name(k8s_resource_name))

\* Lines 470-506 (716-752): the body is built for an agent or a tool; for any
\* other type the local is never bound and the test that follows raises.
ConstructBody ==
    /\ pc = "construct"
    /\ IF resource_type \notin {"agent", "tool"}
         THEN /\ pc' = "done"
              /\ result' = "UnboundLocalError"
              /\ UNCHANGED <<cr_body, lastReport, secretReads>>
         ELSE /\ secretReads' = secretReads + 1
              /\ IF ConstructResult.kind = "None"
                   THEN /\ cr_body' = ConstructResult
                        /\ Return("False", Report("error", "construct_failed", "-", "-"))
                   ELSE IF ConstructResult.kind = "ValueError"
                   THEN /\ pc' = "done"
                        /\ result' = "ValueError"
                        /\ lastReport' = Report("info", "using_github_username", "-", "-")
                        /\ UNCHANGED cr_body
                   ELSE /\ cr_body' = ConstructResult
                        /\ pc' = "submit"
                        /\ lastReport' = Report("info", "using_github_username", "-", "-")
                        /\ UNCHANGED result
    /\ UNCHANGED <<pairVars, regVars, auxVars, inputs, k8s_resource_name, buildLocals, deployLocals, cluster,
                   creates, createOutcome, buildGets, deployGets, sleeps, observed,
                   cancel, trace>>

\* Variant: the deployment from an image waits for a build first.
AfterSubmit_AlwaysBuild ==
    IF BuildLoopCond("Pending", 0) THEN "build_loop" ELSE "build_after"

\* Where control goes once the create call has returned: the build loop of
\* trigger_and_monitor_build, the deploy loop of ..._from_image.
AfterSubmit ==
    IF fn = "build"
    THEN (IF BuildLoopCond("Pending", 0) THEN "build_loop" ELSE "build_after")
    ELSE (IF DeployLoopCond("Unknown", 0) THEN "deploy_loop" ELSE "deploy_after")

\* Variant: the loops are entered whatever the create call did.
CreateAccepted_Always(outcome) == TRUE

\* Variant: "already exists" is taken for success.
CreateAccepted_Or409(outcome) == outcome \in {"created", "already_exists"}

\* The try block of lines 510-522 (756-768) runs to its end: the call returned.
CreateAccepted(outcome) == outcome = "created"

\* create_namespaced_custom_object(..., body=build_cr_body): the name is the
\* one in the metadata of the body.
CreateCall(body) == [verb |-> "create", name |-> body.name]

\* Lines 507-535 (753-781): the single create call.
Submit ==
    /\ pc = "submit"
    /\ creates' = creates + 1
    /\ lastCall' = CreateCall(cr_body)
    /\ \E outcome \in CreateOutcomes(cluster) :
         /\ createOutcome' = outcome
         /\ cluster' = IF outcome = "created" THEN "ours" ELSE cluster
         /\ IF CreateAccepted(outcome)
              THEN /\ lastReport' = Report("success", "creation_request_sent", "-", "-")
                   /\ pc' = AfterSubmit
                   /\ UNCHANGED result
              ELSE Return("False",
                          IF outcome = "exception"
                          THEN Report("error", "unexpected_create_error", "-", "-")
                          ELSE Report("error", "kube_api_exception", outcome, "-"))
    /\ UNCHANGED <<pairVars, regVars, auxVars, inputs, locals, secretReads, buildGets, deployGets, sleeps,
                   observed, cancel, pollReports, lastStatusMsg>>

\* One read of the build loop, lines 547-588: what the locals become.
\* Variant: a read that raises leaves no status behind.
BuildStatusAfter_Unknown(resp) ==
    IF resp.kind = "object" THEN Get(resp.build, "Unknown") ELSE "Unknown"

BuildStatusAfter(resp) ==
    IF resp.kind = "object" THEN Get(resp.build, "Unknown") ELSE "Error"

BuildReport(resp) ==
    IF resp.kind = "object"
    THEN Quoting(Report("info", "build_status", Get(resp.build, "Unknown"),
                        Get(resp.deploy, "Unknown")),
                 Get(resp.bmsg, ""))
    ELSE IF resp.kind = "ApiException" /\ resp.status = 404
    THEN Report("error", "not_found_during_polling", "-", "-")
    ELSE IF resp.kind = "ApiException"
    THEN Report("error", "api_error_polling", "-", "-")
    ELSE Report("error", "unexpected_error_polling", "-", "-")

\* The iteration leaves the loop by break: a terminal phase was read (line
\* 569), or the read raised (lines 582, 588).
BuildIterBreaks(resp) ==
    IF resp.kind = "object" THEN BuildBreaks(Get(resp.build, "Unknown")) ELSE TRUE

\* Variant: the sleep comes before the tests of the iteration.
BuildIterSleeps_Always(resp) == TRUE

\* time.sleep at line 571 is reached only by a read that returned and did not break.
BuildIterSleeps(resp) == resp.kind = "object" /\ ~BuildIterBreaks(resp)

GetCall_Patch(name) == [verb |-> "patch", name |-> name]

\* get_namespaced_custom_object(..., name=k8s_resource_name)
GetCall(name) == [verb |-> "get", name |-> name]

\* Lines 543-588: one iteration of the build loop.
BuildPoll ==
    /\ pc = "build_loop"
    /\ retries' = retries + 1
    /\ buildGets' = buildGets + 1
    /\ lastCall' = GetCall(k8s_resource_name)
    /\ \E resp \in GetResponses(cluster) :
         /\ current_build_status' = BuildStatusAfter(resp)
         /\ lastReport' = BuildReport(resp)
         /\ pollReports' = pollReports + ReportCount(BuildReport(resp))
         /\ lastStatusMsg' = IF resp.kind = "object" THEN Get(resp.bmsg, "")
                              ELSE lastStatusMsg
         /\ sleeps' = IF BuildIterSleeps(resp) THEN sleeps + 1 ELSE sleeps
         /\ lastBuildResp' = RespKind(resp, Get(resp.build, "Unknown"))
         /\ buildAllRunning' = (buildAllRunning /\ resp.kind = "object" /\ resp.build = "Running")
         /\ pc' = IF BuildIterBreaks(resp) \/ ~BuildLoopCond(current_build_status', retries')
                  THEN "build_after" ELSE "build_loop"
    /\ UNCHANGED <<pairVars, regVars, auxVars, inputs, k8s_resource_name, cr_body, deployLocals, result, cluster,
                   creates, createOutcome, secretReads, deployGets, lastDeployResp,
                   deployAllRead, deployReadBuildFailed, cancel>>

\* Lines 589-599 and 663-667: after the build loop.
BuildAfter ==
    /\ pc = "build_after"
    /\ IF BuildTimedOut(current_build_status, retries)
         THEN /\ Return("False", Report("error", "build_timeout", "-", "-"))
              /\ UNCHANGED deployLocals
         ELSE IF DeployGate(current_build_status)
         THEN /\ deployment_retries' = 0
              /\ final_deployment_phase' = "Unknown"
              /\ pc' = IF DeployLoopCond("Unknown", 0) THEN "deploy_loop" ELSE "deploy_after"
              /\ UNCHANGED <<result, lastReport>>
         ELSE /\ Return("False", Report("error", "build_finished_with_status",
                                        current_build_status, "-"))
              /\ UNCHANGED deployLocals
    /\ UNCHANGED <<pairVars, regVars, auxVars, inputs, k8s_resource_name, cr_body, buildLocals, cluster, calls,
                   observed, cancel, trace>>

\* One read of a deploy loop, lines 612-642 (796-826): every exception is
\* caught, reported as a warning and followed by a sleep.
DeployPhaseAfter(resp, phase) ==
    IF resp.kind = "object" THEN Get(resp.deploy, "Unknown") ELSE phase

DeployReport_SilentOnError(resp) ==
    IF resp.kind = "object"
    THEN Quoting(Report("info", "deployment_status", Get(resp.deploy, "Unknown"), "-"),
                 Get(resp.dmsg, ""))
    ELSE NoReport

DeployReport(resp) ==
    IF resp.kind = "object"
    THEN Quoting(Report("info", "deployment_status", Get(resp.deploy, "Unknown"), "-"),
                 Get(resp.dmsg, ""))
    ELSE Report("warning", "error_checking_deployment_status", "-", "-")

\* Variant: a 404 ends the deploy loop as it ends the build loop.
DeployIterBreaks_On404(resp) ==
    IF resp.kind = "object" THEN DeployBreaks(Get(resp.deploy, "Unknown"))
    ELSE resp.kind = "ApiException" /\ resp.status = 404

DeployIterBreaks(resp) ==
    IF resp.kind = "object" THEN DeployBreaks(Get(resp.deploy, "Unknown")) ELSE FALSE

DeployIterSleeps(resp) == ~DeployIterBreaks(resp)

\* Lines 608-642 (792-826): one iteration of the deploy loop.
DeployPoll ==
    /\ pc = "deploy_loop"
    /\ deployment_retries' = deployment_retries + 1
    /\ deployGets' = deployGets + 1
    /\ lastCall' = GetCall(k8s_resource_name)
    /\ \E resp \in GetResponses(cluster) :
         /\ final_deployment_phase' = DeployPhaseAfter(resp, final_deployment_phase)
         /\ lastReport' = DeployReport(resp)
         /\ pollReports' = pollReports + ReportCount(DeployReport(resp))
         /\ lastStatusMsg' = IF resp.kind = "object" THEN Get(resp.dmsg, "")
                              ELSE lastStatusMsg
         /\ sleeps' = IF DeployIterSleeps(resp) THEN sleeps + 1 ELSE sleeps
         /\ lastDeployResp' = RespKind(resp, Get(resp.deploy, "Unknown"))
         /\ deployAllRead' = (deployAllRead /\ resp.kind = "object")
         /\ deployReadBuildFailed' =
               (deployReadBuildFailed \/ resp.build \in {"Failed", "Error"})
         /\ pc' = IF DeployIterBreaks(resp)
                     \/ ~DeployLoopCond(final_deployment_phase', deployment_retries')
                  THEN "deploy_after" ELSE "deploy_loop"
    /\ UNCHANGED <<pairVars, regVars, auxVars, inputs, k8s_resource_name, cr_body, buildLocals, result, cluster,
                   creates, createOutcome, secretReads, buildGets, lastBuildResp,
                   buildAllRunning, cancel>>

\* Variant: everything but a failed deployment counts as success.
DeploySucceeded_NotFailed(phase) == phase \notin {"Failed", "Error"}

\* if final_deployment_phase == "Ready"
DeploySucceeded(phase) == phase = "Ready"

\* Lines 645-661 (829-845): the final deployment status.
DeployAfter ==
    /\ pc = "deploy_after"
    /\ IF DeploySucceeded(final_deployment_phase)
         THEN Return("True", Report("success", "deployed_successfully", "-", "-"))
         ELSE IF final_deployment_phase \in {"Failed", "Error"}
         THEN Return("False", Report("error", "deployment_failed", final_deployment_phase, "-"))
         ELSE Return("False", Report("warning", "deployment_timed_out",
                                     final_deployment_phase, "-"))
    /\ UNCHANGED <<pairVars, regVars, auxVars, inputs, locals, cluster, calls, observed, cancel, trace>>

(* ----------------------------------------------------------------------- *)
(* The environment: other actors                                           *)
(* ----------------------------------------------------------------------- *)
Polling == pc \in {"build_loop", "deploy_loop"}

\* Somebody else deletes the resource while it is being polled.
ExternalDelete ==
    /\ Polling
    /\ cluster = "ours"
    /\ cluster' = "absent"
    /\ UNCHANGED <<pairVars, regVars, auxVars, inputs, locals, pc, result, lastReport, calls, observed, cancel,
                   trace>>

\* The caller asks for cancellation while a loop is running.  Neither
\* function takes a cancellation token or reads any such signal.
RequestCancel ==
    /\ Polling
    /\ ~cancelRequested
    /\ cancelRequested' = TRUE
    /\ getsAtCancel' = buildGets + deployGets
    /\ UNCHANGED <<pairVars, regVars, auxVars, inputs, locals, pc, result, lastReport, cluster, calls, observed,
                   trace>>

Next ==
    \/ CheckArgs
    \/ ConstructBody
    \/ Submit
    \/ BuildPoll
    \/ BuildAfter
    \/ DeployPoll
    \/ DeployAfter
    \/ ExternalDelete
    \/ RequestCancel

Spec == Init /\ [][Next]_vars

\* The steps of the function itself.  It is straight-line code and two
\* counted loops run by one thread; time.sleep returns, the client calls
\* return or raise, so a step that is enabled is eventually taken.
Run ==
    \/ CheckArgs
    \/ ConstructBody
    \/ Submit
    \/ BuildPoll
    \/ BuildAfter
    \/ DeployPoll
    \/ DeployAfter

LiveSpec == Spec /\ WF_vars(Run)

(* ----------------------------------------------------------------------- *)
(* Two calls of trigger_and_monitor_build at once, on distinct resources    *)
(* ----------------------------------------------------------------------- *)

\* What the cluster answers to the reads of one resource, in order; the
\* sequence is short and is read round and round.
ScriptAnswers ==
    {Object("Running", "Pending", Absent, Absent),
     Object("Succeeded", "Running", Absent, Absent),
     Object("Succeeded", "Ready", Absent, Absent),
     Object("Succeeded", "Failed", Absent, Absent),
     Object("Failed", Absent, Absent, Absent),
     OtherException}

ScriptLen == 2

Scripts == [1..ScriptLen -> ScriptAnswers]

At(script, n) == script[((n - 1) % Len(script)) + 1]

Feeds == [create : {"created", "api_error"}, script : Scripts]

\* Variant: the loop state is kept in one place for all calls.
LocalOf_Shared(p) == 1

\* Each call has its own locals.
LocalOf(p) == p

Local(p) == frames[LocalOf(p)]

\* return <value>; `exit` names the return statement reached.
PReturn(p, value, exit) ==
    threads' = [threads EXCEPT ![p].pc = "done", ![p].result = value, ![p].exit = exit]

\* Lines 507-539: the create call, then the locals of the build loop.
PSubmit(p) ==
    /\ threads[p].pc = "submit"
    /\ IF CreateAccepted(feeds[p].create)
         THEN /\ threads' = [threads EXCEPT ![p].pc = AfterSubmit]
              /\ frames' = [frames EXCEPT ![LocalOf(p)].current_build_status = "Pending",
                                          ![LocalOf(p)].retries = 0]
         ELSE /\ PReturn(p, "False", "SubmissionFailed")
              /\ UNCHANGED frames
    /\ UNCHANGED <<runVars, regVars, auxVars, feeds>>

\* Lines 543-588: one iteration of the build loop.
PBuildPoll(p) ==
    /\ threads[p].pc = "build_loop"
    /\ LET resp == At(feeds[p].script, threads[p].gets + 1)
           status == BuildStatusAfter(resp)
           n == Local(p).retries + 1
       IN /\ frames' = [frames EXCEPT ![LocalOf(p)].current_build_status = status,
                                      ![LocalOf(p)].retries = n]
          /\ threads' = [threads EXCEPT
                           ![p].gets = @ + 1,
                           ![p].pc = IF BuildIterBreaks(resp) \/ ~BuildLoopCond(status, n)
                                     THEN "build_after" ELSE "build_loop"]
    /\ UNCHANGED <<runVars, regVars, auxVars, feeds>>

\* Lines 589-603, 662-667: after the build loop.
PBuildAfter(p) ==
    /\ threads[p].pc = "build_after"
    /\ IF BuildTimedOut(Local(p).current_build_status, Local(p).retries)
         THEN /\ PReturn(p, "False", "Timeout")
              /\ UNCHANGED frames
         ELSE IF DeployGate(Local(p).current_build_status)
         THEN /\ frames' = [frames EXCEPT ![LocalOf(p)].final_deployment_phase = "Unknown",
                                          ![LocalOf(p)].deployment_retries = 0]
              /\ threads' = [threads EXCEPT
                               ![p].pc = IF DeployLoopCond("Unknown", 0)
                                         THEN "deploy_loop" ELSE "deploy_after"]
         ELSE /\ PReturn(p, "False", "BuildFailed")
              /\ UNCHANGED frames
    /\ UNCHANGED <<runVars, regVars, auxVars, feeds>>

\* Lines 604-642: one iteration of the deploy loop.
PDeployPoll(p) ==
    /\ threads[p].pc = "deploy_loop"
    /\ LET resp == At(feeds[p].script, threads[p].gets + 1)
           phase == DeployPhaseAfter(resp, Local(p).final_deployment_phase)
           n == Local(p).deployment_retries + 1
       IN /\ frames' = [frames EXCEPT ![LocalOf(p)].final_deployment_phase = phase,
                                      ![LocalOf(p)].deployment_retries = n]
          /\ threads' = [threads EXCEPT
                           ![p].gets = @ + 1,
                           ![p].pc = IF DeployIterBreaks(resp) \/ ~DeployLoopCond(phase, n)
                                     THEN "deploy_after" ELSE "deploy_loop"]
    /\ UNCHANGED <<runVars, regVars, auxVars, feeds>>

\* Lines 645-661: the final deployment status.
PDeployAfter(p) ==
    /\ threads[p].pc = "deploy_after"
    /\ IF DeploySucceeded(Local(p).final_deployment_phase)
         THEN PReturn(p, "True", "Deployed")
         ELSE IF Local(p).final_deployment_phase \in {"Failed", "Error"}
         THEN PReturn(p, "False", "DeployFailed")
         ELSE PReturn(p, "False", "Timeout")
    /\ UNCHANGED <<runVars, regVars, auxVars, frames, feeds>>

\* The outcome of a finished call, by what the cluster answered: the create
\* was refused; the build ended Failed or Error, or never ended; the
\* deployment became Ready, ended Failed or Error, or never ended.
Outcome(p) ==
    IF feeds[p].create # "created" THEN "SubmissionFailed"
    ELSE IF Local(p).current_build_status \in {"Failed", "Error"} THEN "BuildFailed"
    ELSE IF Local(p).current_build_status # "Succeeded" THEN "Timeout"
    ELSE IF Local(p).final_deployment_phase = "Ready" THEN "Deployed"
    ELSE IF Local(p).final_deployment_phase \in {"Failed", "Error"} THEN "DeployFailed"
    ELSE "Timeout"

\* Two valid requests for distinct resources, each about to make its create
\* call; no single call is in progress.
PairInit ==
    /\ RunIdle
    /\ RegIdle
    /\ AuxIdle
    /\ threads = [p \in Procs |-> [pc |-> "submit", result |-> "none", gets |-> 0,
                                   exit |-> "none"]]
    /\ frames = [p \in Procs |-> [current_build_status |-> "Pending", retries |-> 0,
                                  final_deployment_phase |-> "Unknown",
                                  deployment_retries |-> 0]]
    /\ feeds \in [Procs -> Feeds]

PairNext ==
    \/ \E p \in Procs : PSubmit(p)
    \/ \E p \in Procs : PBuildPoll(p)
    \/ \E p \in Procs : PBuildAfter(p)
    \/ \E p \in Procs : PDeployPoll(p)
    \/ \E p \in Procs : PDeployAfter(p)

PairSpec == PairInit /\ [][PairNext]_vars

\* The same call made alone: the loops of lines 543-588 and 604-642 run to
\* their end on the answers of the script.
RECURSIVE BuildLoop(_, _, _)
BuildLoop(script, status, n) ==
    IF ~BuildLoopCond(status, n) THEN [status |-> status, n |-> n]
    ELSE LET resp == At(script, n + 1)
         IN IF BuildIterBreaks(resp)
            THEN [status |-> BuildStatusAfter(resp), n |-> n + 1]
            ELSE BuildLoop(script, BuildStatusAfter(resp), n + 1)

RECURSIVE DeployLoop(_, _, _, _)
DeployLoop(script, before, phase, n) ==
    IF ~DeployLoopCond(phase, n) THEN [phase |-> phase, n |-> n]
    ELSE LET resp == At(script, before + n + 1)
         IN IF DeployIterBreaks(resp)
            THEN [phase |-> DeployPhaseAfter(resp, phase), n |-> n + 1]
            ELSE DeployLoop(script, before, DeployPhaseAfter(resp, phase), n + 1)

RunAlone(feed) ==
    IF ~CreateAccepted(feed.create) THEN [result |-> "False", gets |-> 0]
    ELSE LET b == BuildLoop(feed.script, "Pending", 0)
         IN IF BuildTimedOut(b.status, b.n) \/ ~DeployGate(b.status)
            THEN [result |-> "False", gets |-> b.n]
            ELSE LET d == DeployLoop(feed.script, b.n, "Unknown", 0)
                 IN [result |-> IF DeploySucceeded(d.phase) THEN "True" ELSE "False",
                     gets |-> b.n + d.n]

(* ----------------------------------------------------------------------- *)
(* client_registration.register_client, called again and again             *)
(* ----------------------------------------------------------------------- *)

\* Calls made one after the other.
MaxCalls == 4

ClientIds == {"c1", "c2"}

\* Internal ids that Keycloak gives to the clients it creates.
InternalIds == {"u1", "u2", "u3"}

\* A registered client: the clientId of its representation and its internal id.
Client(clientId, id) == [clientId |-> clientId, id |-> id]

\* The payload built at lines 149-160: its clientId is the client_id argument.
ClientPayload(client_id) == [clientId |-> client_id]

\* keycloak_admin.get_client_id(client_id): the internal id of the client
\* with that clientId, None when there is none.
KcGetClientId(clients, client_id) ==
    IF \E c \in clients : c.clientId = client_id
    THEN (CHOOSE c \in clients : c.clientId = client_id).id
    ELSE None

\* keycloak_admin.create_client(payload): Keycloak refuses a clientId that is
\* taken (409) and may refuse or fail for other reasons; both raise
\* KeycloakPostError.  Otherwise the client is created under an unused id.
KcCreateOutcomes(clients, payload) ==
    IF \E c \in clients : c.clientId = payload.clientId
    THEN {"KeycloakPostError"}
    ELSE {"KeycloakPostError"} \cup (InternalIds \ {c.id : c \in clients})

\* Variant: the lookup result is never taken as a hit.
Truthy_Never(value) == FALSE

\* if internal_client_id:
Truthy(value) == value # None

\* Lines 79-84: the lookup, and the early return when the client exists.
RegLookup ==
    /\ reg.pc = "idle"
    /\ regLog.calls < MaxCalls
    /\ LET id == KcGetClientId(keycloak, reg.client_id)
       IN IF Truthy(id)
          THEN /\ keycloak' = keycloak
               /\ reg' = [reg EXCEPT !.pc = "idle", !.internal_client_id = id]
               /\ regLog' = [regLog EXCEPT
                               !.calls = @ + 1,
                               !.returned = @ \cup {id},
                               !.first = IF regLog.returned = {} THEN keycloak ELSE @,
                               !.afterOne = IF regLog.calls = 0 THEN keycloak ELSE @]
          ELSE /\ keycloak' = keycloak
               /\ reg' = [reg EXCEPT !.pc = "create", !.internal_client_id = None]
               /\ regLog' = [regLog EXCEPT !.calls = @ + 1]
    /\ UNCHANGED <<runVars, pairVars, auxVars>>

\* Lines 87-95: create_client; KeycloakPostError is logged and raised again.
RegCreate ==
    /\ reg.pc = "create"
    /\ \E outcome \in KcCreateOutcomes(keycloak, ClientPayload(reg.client_id)) :
         IF outcome = "KeycloakPostError"
         THEN /\ keycloak' = keycloak
              /\ reg' = [reg EXCEPT !.pc = "idle"]
              /\ regLog' = [regLog EXCEPT
                              !.creates = @ + 1,
                              !.raised = @ + 1,
                              !.afterOne = IF regLog.calls = 1 THEN keycloak ELSE @]
         ELSE /\ keycloak' = keycloak \cup {Client(ClientPayload(reg.client_id).clientId,
                                                  outcome)}
              /\ reg' = [reg EXCEPT !.pc = "idle", !.internal_client_id = outcome]
              /\ regLog' = [regLog EXCEPT
                              !.creates = @ + 1,
                              !.created = @ + 1,
                              !.returned = @ \cup {outcome},
                              !.first = IF regLog.returned = {} THEN keycloak' ELSE @,
                              !.afterOne = IF regLog.calls = 1 THEN keycloak' ELSE @]
    /\ UNCHANGED <<runVars, pairVars, auxVars>>

\* A realm that holds some clients already, the one asked for perhaps among
\* them, and the client_id that every call is made with.
RegInit ==
    /\ RunIdle
    /\ PairIdle
    /\ AuxIdle
    /\ keycloak \in SUBSET {Client("c1", "u1"), Client("c2", "u2")}
    /\ \E client_id \in ClientIds :
         reg = [pc |-> "idle", client_id |-> client_id, internal_client_id |-> None]
    /\ regLog = [calls |-> 0, creates |-> 0, created |-> 0, raised |-> 0,
                 returned |-> {}, first |-> {}, afterOne |-> {}]

RegNext ==
    \/ RegLookup
    \/ RegCreate

RegSpec == RegInit /\ [][RegNext]_vars

(* ----------------------------------------------------------------------- *)
(* identity.factory.get_identity_provider                                   *)
(* ----------------------------------------------------------------------- *)

\* Provider names as given, as sequences of tokens: a word in some case,
\* white space (" "), anything else.
ProviderNames ==
    {<< >>, <<" ">>, <<"spire">>, <<" ", "SPIRE">>, <<"serviceaccount">>,
     <<"ServiceAccount", " ">>, <<"k8s">>, <<"spire", " ", "k8s">>}

\* str.lower() on a token.
LowerWord(w) ==
    IF w = "SPIRE" THEN "spire"
    ELSE IF w = "ServiceAccount" THEN "serviceaccount"
    ELSE w

\* provider_name.lower().strip()
NormalizeName(name) == Strip([i \in 1..Len(name) |-> LowerWord(name[i])], " ")

\* Variant: when the token of the requested provider is missing, the other
\* provider is used if its token is there.
SelectProvider_Fallback(name, spire_token, sa_token) ==
    IF name = <<"spire">>
    THEN (IF spire_token THEN "SPIREProvider"
          ELSE IF sa_token THEN "ServiceAccountProvider" ELSE "ProviderNotFoundError")
    ELSE IF name = <<"serviceaccount">>
    THEN (IF sa_token THEN "ServiceAccountProvider"
          ELSE IF spire_token THEN "SPIREProvider" ELSE "ProviderNotFoundError")
    ELSE "ProviderNotFoundError"

\* Lines 47-68: the provider for a normalized name, os.path.exists of the
\* two token paths given.
SelectProvider(name, spire_token, sa_token) ==
    IF name = <<"spire">>
    THEN (IF spire_token THEN "SPIREProvider" ELSE "ProviderNotFoundError")
    ELSE IF name = <<"serviceaccount">>
    THEN (IF sa_token THEN "ServiceAccountProvider" ELSE "ProviderNotFoundError")
    ELSE "ProviderNotFoundError"

\* Lines 35-45: the name comes from the argument, from the environment when
\* the argument is None; None and the empty string are refused.
IdpResolveName ==
    /\ idp.pc = "start"
    /\ LET name == IF idp.provider_name = NoName THEN idp.env ELSE idp.provider_name
       IN IF name = NoName \/ name = << >>
          THEN idp' = [idp EXCEPT !.pc = "done", !.outcome = "ProviderNotFoundError"]
          ELSE idp' = [idp EXCEPT !.pc = "select", !.name = NormalizeName(name)]
    /\ UNCHANGED <<runVars, pairVars, regVars, secVars>>

\* Lines 47-68: the explicit selection.
IdpSelect ==
    /\ idp.pc = "select"
    /\ idp' = [idp EXCEPT !.pc = "done",
                          !.outcome = SelectProvider(idp.name, idp.spire_token, idp.sa_token)]
    /\ UNCHANGED <<runVars, pairVars, regVars, secVars>>

IdpInit ==
    /\ RunIdle
    /\ PairIdle
    /\ RegIdle
    /\ SecIdle
    /\ idp \in [pc : {"start"},
                provider_name : {NoName} \cup ProviderNames,
                env : {NoName} \cup ProviderNames,
                spire_token : BOOLEAN,
                sa_token : BOOLEAN,
                name : {<< >>},
                outcome : {"none"}]

IdpNext ==
    \/ IdpResolveName
    \/ IdpSelect

IdpSpec == IdpInit /\ [][IdpNext]_vars

(* ----------------------------------------------------------------------- *)
(* create_or_update_secret (installer utils, Phoenix secret generator) and   *)
(* the Phoenix generator's main                                              *)
(* ----------------------------------------------------------------------- *)

\* main runs at most this many times in sequence.
MaxRuns == 2

\* PHOENIX_SECRET values a secret found in the namespace may hold.
FoundValues == {"", "k0"}

\* secrets.token_urlsafe(32): a fresh, non-empty value at every run.
TokenUrlsafe(run) == IF run = 1 THEN "g1" ELSE IF run = 2 THEN "g2" ELSE "g3"

\* A secret somebody else wrote.
OtherSecrets ==
    {[present |-> TRUE, has_key |-> FALSE, PHOENIX_SECRET |-> B64Encode(""), body |-> "other"]}
        \cup {[present |-> TRUE, has_key |-> TRUE, PHOENIX_SECRET |-> B64Encode(v),
               body |-> "other"] : v \in FoundValues}

\* The secret the call writes: the given body, for the generator with the
\* PHOENIX_SECRET of main's secret_data.
GivenSecret(c) ==
    IF c.fn = "phoenix"
    THEN [present |-> TRUE, has_key |-> TRUE, PHOENIX_SECRET |-> B64Encode(c.phoenix_secret),
          body |-> "given"]
    ELSE [present |-> TRUE, has_key |-> FALSE, PHOENIX_SECRET |-> B64Encode(""), body |-> "given"]

\* What read_namespaced_secret answers.
ReadAnswers(sec) ==
    {"ApiException500", "OtherException"} \cup (IF sec.present THEN {"secret"} ELSE {"ApiException404"})

\* What create_namespaced_secret answers.
CreateAnswers(sec) ==
    {"ApiException500", "OtherException"} \cup (IF sec.present THEN {"ApiException409"} ELSE {"created"})

\* What patch_namespaced_secret answers.
PatchAnswers(sec) ==
    {"ApiException500", "OtherException"} \cup (IF sec.present THEN {"patched"} ELSE {"ApiException404"})

\* The call is over.
SecEnd(c, outcome, reported) ==
    [c EXCEPT !.pc = "done", !.outcome = outcome, !.reported = reported]

\* phoenix_oauth_secret.main, lines 416-432: the signing secret is read from
\* the existing secret, and generated when nothing was read.  An
\* ApiException of the read is passed over (logged unless 404); any other
\* exception reaches main's last handler.
PhxRead ==
    /\ cus.pc = "read"
    /\ \E a \in ReadAnswers(secret) :
         IF a = "OtherException"
         THEN cus' = SecEnd(cus, "exit1", TRUE)
         ELSE LET read == IF a = "secret" /\ secret.has_key
                          THEN B64Decode(secret.PHOENIX_SECRET) ELSE ""
              IN cus' = [cus EXCEPT !.pc = "create",
                                    !.generated = (read = ""),
                                    !.phoenix_secret =
                                        IF read = "" THEN TokenUrlsafe(cus.run) ELSE read]
    /\ UNCHANGED <<runVars, pairVars, regVars, idpVars, secret>>

\* create_namespaced_secret and what follows it: utils.py lines 207-223
\* (other than the patch), phoenix_oauth_secret.py lines 246-270 (other than
\* the patch) with main's handlers, lines 456-461.
SecCreate ==
    /\ cus.pc = "create"
    /\ \E a \in CreateAnswers(secret) :
         IF a = "created"
         THEN /\ secret' = GivenSecret(cus)
              /\ cus' = SecEnd(cus, "returned", FALSE)
         ELSE /\ secret' = secret
              /\ cus' = IF a = "ApiException409" THEN [cus EXCEPT !.pc = "patch"]
                        ELSE IF a = "ApiException500" THEN SecEnd(cus, "exit1", TRUE)
                        ELSE IF cus.fn = "phoenix" THEN SecEnd(cus, "exit1", TRUE)
                        ELSE SecEnd(cus, "raised", FALSE)
    /\ UNCHANGED <<runVars, pairVars, regVars, idpVars>>

\* patch_namespaced_secret after a 409: utils.py lines 214-218 (no handler
\* around the patch), phoenix_oauth_secret.py lines 257-266 (any exception
\* becomes KubernetesResourceError, which main logs and exits on).
SecPatch ==
    /\ cus.pc = "patch"
    /\ \E a \in PatchAnswers(secret) :
         IF a = "patched"
         THEN /\ secret' = GivenSecret(cus)
              /\ cus' = SecEnd(cus, "returned", FALSE)
         ELSE /\ secret' = secret
              /\ cus' = IF cus.fn = "phoenix" THEN SecEnd(cus, "exit1", TRUE)
                        ELSE SecEnd(cus, "raised", FALSE)
    /\ UNCHANGED <<runVars, pairVars, regVars, idpVars>>

\* Another actor deletes the secret, or creates one, between two calls of
\* the function to the API server.
OtherActor ==
    /\ cus.pc \in {"create", "patch"}
    /\ ~cus.interfered
    /\ IF secret.present THEN secret' = NoSecret ELSE secret' \in OtherSecrets
    /\ cus' = [cus EXCEPT !.interfered = TRUE]
    /\ UNCHANGED <<runVars, pairVars, regVars, idpVars>>

\* The generator's job runs again.
PhxAgain ==
    /\ cus.pc = "done"
    /\ cus.fn = "phoenix"
    /\ cus.run < MaxRuns
    /\ cus' = [pc |-> "read", fn |-> "phoenix", run |-> cus.run + 1, phoenix_secret |-> "",
               generated |-> FALSE, before |-> secret, interfered |-> FALSE,
               reported |-> FALSE, outcome |-> "none"]
    /\ UNCHANGED <<runVars, pairVars, regVars, idpVars, secret>>

SecInit ==
    /\ RunIdle
    /\ PairIdle
    /\ RegIdle
    /\ IdpIdle
    /\ secret \in {NoSecret} \cup OtherSecrets
    /\ \E owner \in {"installer", "phoenix"} :
         cus = [pc |-> IF owner = "phoenix" THEN "read" ELSE "create", fn |-> owner, run |-> 1,
                phoenix_secret |-> "", generated |-> FALSE, before |-> secret,
                interfered |-> FALSE, reported |-> FALSE, outcome |-> "none"]

SecNext ==
    \/ PhxRead
    \/ SecCreate
    \/ SecPatch
    \/ OtherActor
    \/ PhxAgain

SecSpec == SecInit /\ [][SecNext]_vars

TypeOK ==
    /\ pc \in {"check_args", "construct", "submit", "build_loop", "build_after",
               "deploy_loop", "deploy_after", "done"}
    /\ result \in {"none", "True", "False", "UnboundLocalError", "ValueError"}
    /\ retries \in 0..max_retries
    /\ deployment_retries \in 0..max_deployment_retries
    /\ current_build_status \in Phases
    /\ final_deployment_phase \in Phases
    /\ cluster \in {"absent", "foreign", "ours"}


(* ----------------------------------------------------------------------- *)
(* Properties                                                              *)
(* ----------------------------------------------------------------------- *)

\* C1: in trigger_and_monitor_build the deploy loop is entered, and reads
\* the resource, only after a build poll has observed phase Succeeded; a run
\* whose build loop ended on Succeeded issues at least one deploy poll; a
\* build that ended otherwise (Failed, Error, a raised read, timeout) never
\* polls the deployment.
C1_DeployIffBuildSucceeded ==
    fn = "build" =>
      /\ (pc \in {"deploy_loop", "deploy_after"} \/ deployGets > 0)
            => (lastBuildResp = "Succeeded" /\ buildGets >= 1)
      /\ (pc = "done" /\ lastBuildResp = "Succeeded") => deployGets >= 1
      /\ (pc = "done" /\ lastBuildResp # "Succeeded") => deployGets = 0

C1_Witness ==
    fn = "build" /\ pc = "done" /\ lastBuildResp = "Succeeded" /\ deployGets >= 1

\* C2: when a build poll observes Failed or Error at attempt k the build
\* loop is over (k polls issued, none follows), the deployment is never
\* polled, and the run returns False reporting that build status.
C2_FailFastOnFailedBuild ==
    /\ [](fn = "build" /\ lastBuildResp \in {"Failed", "Error"} =>
            /\ pc \in {"build_after", "done"}
            /\ buildGets = retries
            /\ deployGets = 0
            /\ pc = "done" =>
                 /\ result = "False"
                 /\ lastReport = Report("error", "build_finished_with_status",
                                        lastBuildResp, "-"))
    /\ [][(lastBuildResp \in {"Failed", "Error"}) =>
            (buildGets' = buildGets /\ deployGets' = deployGets)]_vars

\* Build phases [Pending, Failed]: failure after 2 polls.
C2_Witness ==
    /\ fn = "build" /\ pc = "done" /\ result = "False"
    /\ lastBuildResp = "Failed" /\ buildGets = 2 /\ buildGets < max_retries
    /\ deployGets = 0

\* C3: a build that every poll finds Running is polled exactly max_retries
\* times, then the run reports the timeout and returns False without
\* polling the deployment; no run issues more than max_retries build polls.
C3_BuildTimeoutAfterExactlyMax ==
    fn = "build" =>
      /\ buildGets <= max_retries
      /\ (buildAllRunning /\ buildGets > 0 /\ pc \in {"build_after", "done"})
            => (buildGets = max_retries /\ deployGets = 0)
      /\ (buildAllRunning /\ buildGets > 0 /\ pc = "done")
            => (result = "False" /\ lastReport = Report("error", "build_timeout", "-", "-"))

C3_Witness ==
    /\ fn = "build" /\ pc = "done" /\ buildAllRunning
    /\ buildGets = max_retries /\ lastBuildResp = "Running"
    /\ lastReport.msg = "build_timeout"

\* C4: trigger_and_monitor_build returns True exactly when a build poll
\* observed Succeeded and a later deploy poll observed Ready; every other
\* run that reached the create call returns False.
C4_TrueOnlyOnSucceededThenReady ==
    /\ [](fn = "build" /\ pc = "done" =>
            /\ result = "True" <=> (lastBuildResp = "Succeeded" /\ lastDeployResp = "Ready")
            /\ result = "True" => (buildGets >= 1 /\ deployGets >= 1)
            /\ (creates >= 1 /\ result # "True") => result = "False")
    /\ [][deployGets > 0 => buildGets' = buildGets]_vars

C4_Witness ==
    /\ fn = "build" /\ pc = "done" /\ result = "True"
    /\ lastBuildResp = "Succeeded" /\ lastDeployResp = "Ready"

\* C5: the deploy wait stops at the first poll that observes Ready (the run
\* returns True) or Failed/Error (the run returns False), with no further
\* poll; when no poll observes one of them it issues exactly
\* max_deployment_retries polls and the run ends as a deployment timeout.
C5_DeployPollingDiscipline ==
    /\ [](/\ deployGets <= max_deployment_retries
          /\ deployGets = deployment_retries
          /\ lastDeployResp \in {"Ready", "Failed", "Error"}
                => pc \in {"deploy_after", "done"}
          /\ (pc = "done" /\ lastDeployResp = "Ready") => result = "True"
          /\ (pc = "done" /\ lastDeployResp \in {"Failed", "Error"})
                => /\ result = "False"
                   /\ lastReport = Report("error", "deployment_failed", lastDeployResp, "-")
          /\ (pc \in {"deploy_after", "done"} /\ deployGets > 0
                /\ lastDeployResp \notin {"Ready", "Failed", "Error"})
                => deployGets = max_deployment_retries
          /\ (pc = "done" /\ deployGets > 0
                /\ lastDeployResp \notin {"Ready", "Failed", "Error"})
                => (result = "False" /\ lastReport.msg = "deployment_timed_out"))
    /\ [][(lastDeployResp \in {"Ready", "Failed", "Error"}) => deployGets' = deployGets]_vars

C5_Witness ==
    /\ fn = "build" /\ pc = "done" /\ result = "False"
    /\ deployGets = max_deployment_retries
    /\ lastDeployResp = "Running"
    /\ lastReport.msg = "deployment_timed_out"

\* C6: a read that ends in 404 is the last read of its phase, in the build
\* phase and in the deploy phase.
C6_NotFoundEndsPhase ==
    [][/\ lastBuildResp = "404" => buildGets' = buildGets
       /\ lastDeployResp = "404" => deployGets' = deployGets]_vars

\* C7: a read that raises an error other than 404 is reported, counts as one
\* attempt and never ends its phase: after it the loop is still running
\* unless the budget is used up.
C7_TransientErrorNeverEndsPhase ==
    /\ lastBuildResp \in {"api_error", "exception"} =>
          /\ lastReport.level \in {"error", "warning"} \/ pc = "done"
          /\ retries = buildGets
          /\ (pc = "build_loop" \/ buildGets = max_retries)
    /\ lastDeployResp \in {"api_error", "exception"} =>
          /\ lastReport.level \in {"error", "warning"} \/ pc = "done"
          /\ deployment_retries = deployGets
          /\ (pc = "deploy_loop" \/ deployGets = max_deployment_retries)

\* C8: once cancellation has been requested during a loop at most one more
\* read is issued, and the run ends with the outcome Cancelled.
C8_CancelledWithinOnePoll ==
    cancelRequested =>
      /\ buildGets + deployGets <= getsAtCancel + 1
      /\ pc = "done" => result = "Cancelled"

\* C9: at most one create call is issued, and none is repeated; when the
\* cluster rejects it (the name is taken, or any other error) the run
\* returns False at once, the resource in the cluster is left as it was and
\* no status read is issued.
C9_SingleCreateNoOverwrite ==
    /\ creates <= 1
    /\ creates = 0 <=> createOutcome = "none"
    /\ (buildGets + deployGets > 0) => (creates = 1 /\ createOutcome = "created")
    /\ createOutcome \in {"already_exists", "api_error", "exception"} =>
          /\ pc = "done" /\ result = "False"
          /\ buildGets = 0 /\ deployGets = 0
          /\ cluster # "ours"
          /\ lastReport.level = "error"
    /\ createOutcome = "already_exists" => cluster = "foreign"

C9_Witness ==
    /\ createOutcome = "already_exists" /\ creates = 1
    /\ pc = "done" /\ result = "False" /\ cluster = "foreign"

\* C10: when a client is missing, the name sanitizes to empty, or the body
\* builder returns None, the run returns False having issued no create call
\* and no status read, and the cluster is as it was.
C10_InvalidRequestLeavesClusterAlone ==
    /\ []((\/ ~custom_obj_api
           \/ ~core_v1_api
           \/ sanitize_for_k8s_name(resource_name_suggestion) = << >>
           \/ (resource_type \in {"agent", "tool"} /\ ~git_user_secret)) =>
            /\ creates = 0 /\ buildGets = 0 /\ deployGets = 0
            /\ cluster # "ours"
            /\ pc = "done" => result = "False")
    /\ [][creates' = 0 => cluster' = cluster]_vars

C10_Witness ==
    /\ pc = "done" /\ result = "False" /\ cr_body.kind = "None"
    /\ custom_obj_api /\ core_v1_api /\ creates = 0 /\ secretReads = 1

\* C11: every run ends by returning a value: no input (a missing client, an
\* image reference without tag or without repository part, a resource type
\* that is neither agent nor tool) makes a public operation end by raising.
C11_ErrorsReturnedNeverRaised ==
    pc = "done" => result \in {"True", "False"}

C13_ExactPollCountsToDeployed ==
    fn = "build" =>
      /\ (lastBuildResp \in {"Pending", "Running", "Unknown"} /\ retries < max_retries)
            => pc = "build_loop"
      /\ lastBuildResp = "Succeeded" =>
            /\ pc \in {"build_after", "deploy_loop", "deploy_after", "done"}
            /\ buildGets = retries
      /\ (lastDeployResp \in {"Pending", "Running", "Unknown"}
             /\ deployment_retries < max_deployment_retries)
            => pc = "deploy_loop"
      /\ lastDeployResp = "Ready" =>
            /\ pc \in {"deploy_after", "done"}
            /\ deployGets = deployment_retries
            /\ pc = "done" =>
                 /\ result = "True"
                 /\ lastReport.msg = "deployed_successfully"

\* Build polls 1-3 non-terminal, poll 4 Succeeded; deployment poll 1
\* non-terminal, poll 2 Ready.
C13_Witness ==
    /\ fn = "build" /\ pc = "done" /\ result = "True"
    /\ buildGets = 4 /\ lastBuildResp = "Succeeded"
    /\ deployGets = 2 /\ lastDeployResp = "Ready" /\ deployAllRead

\* C15: when a run has ended after a build or deployment read of Failed or
\* Error, the last message given to the observer quotes the status message
\* that the cluster reported in that read.
C15_FailureCarriesClusterMessage ==
    (pc = "done" /\ (lastBuildResp \in {"Failed", "Error"}
                       \/ lastDeployResp \in {"Failed", "Error"}))
        => lastReport.text = lastStatusMsg

\* C16: every poll of either loop, whether the read returns or raises, gives
\* the observer exactly one message before the next poll; after a read that
\* returned, that message carries the phase and the status message read.
C16_OneReportPerPoll ==
    /\ pollReports = buildGets + deployGets
    /\ (pc \in {"build_loop", "build_after"} /\ buildGets > 0
           /\ lastBuildResp \in Phases) =>
          /\ lastReport.level = "info" /\ lastReport.msg = "build_status"
          /\ lastReport.phase = lastBuildResp
          /\ lastReport.text = lastStatusMsg
    /\ (pc \in {"deploy_loop", "deploy_after"} /\ deployGets > 0
           /\ lastDeployResp \in Phases) =>
          /\ lastReport.level = "info" /\ lastReport.msg = "deployment_status"
          /\ lastReport.phase = lastDeployResp
          /\ lastReport.text = lastStatusMsg
    /\ (pc \in {"deploy_loop", "deploy_after"} /\ deployGets > 0
           /\ lastDeployResp \notin Phases) =>
          lastReport.level = "warning"

\* A deployment read raised, then a read returned a phase with a message.
C16_Witness ==
    /\ pc = "deploy_after" /\ deployGets >= 2 /\ ~deployAllRead
    /\ lastDeployResp = "Ready" /\ lastReport.text = "m1"
    /\ pollReports = buildGets + deployGets

\* C18: whatever the cluster answers, the run ends: at the end it has not
\* submitted, or the create failed, or the build failed or timed out, or the
\* deployment is Ready, failed or timed out.  The build loop issues at most
\* max_retries reads, the deploy loop at most max_deployment_retries, and
\* there is at most one sleep per read.
C18_TerminatesWithinBudget ==
    /\ <>(pc = "done")
    /\ [](/\ buildGets <= max_retries
          /\ deployGets <= max_deployment_retries
          /\ buildGets + deployGets <= max_retries + max_deployment_retries
          /\ sleeps <= buildGets + deployGets
          /\ (deployGets = 0 => sleeps <= max_retries))
    /\ [](pc = "done" =>
            \/ creates = 0
            \/ /\ createOutcome # "created" /\ result = "False"
               /\ buildGets + deployGets = 0
            \/ /\ fn = "build" /\ result = "False" /\ deployGets = 0
               /\ lastBuildResp \in {"Failed", "Error", "404", "api_error", "exception"}
            \/ /\ fn = "build" /\ result = "False" /\ deployGets = 0
               /\ buildGets = max_retries
               /\ lastBuildResp \notin {"Succeeded", "Failed", "Error"}
            \/ lastDeployResp = "Ready" /\ result = "True"
            \/ lastDeployResp \in {"Failed", "Error"} /\ result = "False"
            \/ /\ result = "False" /\ deployGets = max_deployment_retries
               /\ lastDeployResp \notin {"Ready", "Failed", "Error"})

\* Both loops used all their attempts.
C18_Witness ==
    /\ pc = "done" /\ result = "False"
    /\ buildGets = max_retries /\ deployGets = max_deployment_retries
    /\ sleeps >= max_retries - 1

C17_InterleavingIndependent ==
    \A p \in Procs :
        /\ threads[p].gets <= RunAlone(feeds[p]).gets
        /\ threads[p].pc = "done" =>
              /\ threads[p].result = RunAlone(feeds[p]).result
              /\ threads[p].gets = RunAlone(feeds[p]).gets

\* Call 1 has returned True after its reads while call 2, on other answers,
\* is in the middle of its deploy loop.
C17_Witness ==
    /\ threads[1].pc = "done" /\ threads[1].result = "True" /\ threads[1].gets >= 3
    /\ threads[2].pc = "deploy_loop" /\ threads[2].gets >= 2
    /\ feeds[1].script # feeds[2].script

C20_RegisterClientIdempotent ==
    /\ regLog.creates <= 1
    /\ Cardinality(regLog.returned) <= 1
    /\ (reg.pc = "idle" /\ regLog.calls >= 1) => keycloak = regLog.afterOne

\* C20, amended: create_client is called only when no client with the
\* client_id exists and succeeds at most once; a call whose create_client
\* raises KeycloakPostError raises it again and leaves the realm as it was;
\* every call that returns returns the same internal id, the id of the
\* registered client, and the clients registered after any later call are
\* those registered when the first call returned.
C20_RegisterClientIdempotentOnceCreated ==
    /\ [](/\ regLog.created <= 1
          /\ regLog.creates = regLog.created + regLog.raised
          /\ Cardinality(regLog.returned) <= 1
          /\ Cardinality({c \in keycloak : c.clientId = reg.client_id}) <= 1
          /\ regLog.returned # {} =>
                /\ keycloak = regLog.first
                /\ KcGetClientId(keycloak, reg.client_id) \in regLog.returned)
    /\ [][(regLog'.creates > regLog.creates) =>
             KcGetClientId(keycloak, reg.client_id) = None]_vars
    /\ [][(regLog'.raised > regLog.raised) => (keycloak' = keycloak)]_vars

\* create_client raised in the first call, created the client in the second,
\* and the third call found it.
C20_Witness ==
    /\ reg.pc = "idle" /\ regLog.calls = 3
    /\ regLog.raised = 1 /\ regLog.created = 1 /\ regLog.creates = 2
    /\ Cardinality(regLog.returned) = 1

\* C22: a deployment read that raises (404 included) counts as one attempt,
\* is followed by one sleep, leaves the phase as it was and does not end the
\* loop while attempts are left; a deploy loop whose last read raised has
\* used all max_deployment_retries attempts and the run ends as a deployment
\* timeout, so it is with a resource deleted after the build succeeded.
C22_DeployLoopSwallowsEveryError ==
    /\ []((lastDeployResp \in {"404", "api_error", "exception"}) =>
            /\ deployGets = deployment_retries
            /\ (deployment_retries < max_deployment_retries) => pc = "deploy_loop"
            /\ (pc \in {"deploy_after", "done"}) =>
                   deployGets = max_deployment_retries
            /\ pc = "done" =>
                 /\ result = "False"
                 /\ lastReport.msg = "deployment_timed_out")
    /\ [][(deployGets' = deployGets + 1
             /\ lastDeployResp' \in {"404", "api_error", "exception"}) =>
            /\ deployment_retries' = deployment_retries + 1
            /\ sleeps' = sleeps + 1
            /\ final_deployment_phase' = final_deployment_phase
            /\ lastReport'.level = "warning"]_vars

\* The resource was deleted after the build succeeded: the deploy loop read
\* 404 to its last attempt.
C22_Witness ==
    /\ fn = "build" /\ pc = "done" /\ lastBuildResp = "Succeeded"
    /\ cluster = "absent" /\ lastDeployResp = "404"
    /\ deployGets = max_deployment_retries
    /\ result = "False" /\ lastReport.msg = "deployment_timed_out"

\* C23: a build read that raises (404, another ApiException, any other
\* exception) at attempt k ends the build loop at attempt k with status
\* Error: no sleep and no build read follows, the deployment is never read,
\* and the run returns False reporting a build finished with status Error,
\* also when k is the last attempt.
C23_BuildLoopEndsOnAnyError ==
    /\ []((lastBuildResp \in {"404", "api_error", "exception"}) =>
            /\ current_build_status = "Error"
            /\ pc \in {"build_after", "done"}
            /\ buildGets = retries
            /\ deployGets = 0
            /\ pc = "done" =>
                 /\ result = "False"
                 /\ lastReport = Report("error", "build_finished_with_status",
                                        "Error", "-"))
    /\ [][(buildGets' = buildGets + 1
             /\ lastBuildResp' \in {"404", "api_error", "exception"}) =>
            /\ sleeps' = sleeps
            /\ lastReport'.level = "error"]_vars
    /\ [][(lastBuildResp \in {"404", "api_error", "exception"}) =>
            /\ buildGets' = buildGets
            /\ deployGets' = deployGets
            /\ sleeps' = sleeps]_vars

\* The read of the last attempt raised: the run reports status Error, not a
\* timeout.
C23_Witness ==
    /\ pc = "done" /\ lastBuildResp = "exception" /\ buildGets = max_retries
    /\ result = "False" /\ lastReport.msg = "build_finished_with_status"
    /\ sleeps = max_retries - 1

\* C24: a phase outside a loop's terminal list never ends that loop.  A
\* missing phase is read as Unknown.  Unknown, Pending, Running and Ready
\* keep the build loop reading, Unknown, Pending, Running and Succeeded keep
\* the deploy loop reading, while attempts are left; a loop that ended after
\* such a read has used all its attempts and the run ends as a timeout.
C24_NonTerminalPhasesKeepPolling ==
    /\ BuildStatusAfter(Object(Absent, Absent, Absent, Absent)) = "Unknown"
    /\ DeployPhaseAfter(Object(Absent, Absent, Absent, Absent), "Pending") = "Unknown"
    /\ (lastBuildResp \in {"Unknown", "Pending", "Running", "Ready"}) =>
          /\ current_build_status = lastBuildResp
          /\ (retries < max_retries) => pc = "build_loop"
          /\ (pc # "build_loop") =>
                (buildGets = max_retries /\ deployGets = 0)
          /\ pc = "done" =>
                (result = "False" /\ lastReport.msg = "build_timeout")
    /\ (lastDeployResp \in {"Unknown", "Pending", "Running", "Succeeded"}) =>
          /\ final_deployment_phase = lastDeployResp
          /\ (deployment_retries < max_deployment_retries) => pc = "deploy_loop"
          /\ (pc # "deploy_loop") => deployGets = max_deployment_retries
          /\ pc = "done" =>
                (result = "False" /\ lastReport.msg = "deployment_timed_out")

\* A resource whose build status stays Ready: the build loop used all its
\* attempts and timed out.
C24_Witness ==
    /\ pc = "done" /\ lastBuildResp = "Ready" /\ buildGets = max_retries
    /\ result = "False" /\ lastReport.msg = "build_timeout"

\* C25: a terminal phase read on the last attempt is honoured.  Succeeded
\* read by build poll number max_retries leads to deployment polling, Failed
\* or Error read there ends the run as a failed build, Ready read by
\* deployment poll number max_deployment_retries makes the run return True;
\* a timeout is reported only when the counter is used up and the phase held
\* is not terminal.
C25_TerminalOnLastAttemptHonoured ==
    /\ (pc = "done" /\ buildGets = max_retries /\ lastBuildResp = "Succeeded") =>
          (deployGets >= 1 /\ lastReport.msg # "build_timeout")
    /\ (pc = "done" /\ buildGets = max_retries
           /\ lastBuildResp \in {"Failed", "Error"}) =>
          /\ result = "False"
          /\ lastReport = Report("error", "build_finished_with_status",
                                 lastBuildResp, "-")
    /\ (pc = "done" /\ deployGets = max_deployment_retries
           /\ lastDeployResp = "Ready") =>
          (result = "True" /\ lastReport.msg = "deployed_successfully")
    /\ lastReport.msg = "build_timeout" =>
          /\ buildGets = max_retries
          /\ current_build_status \notin {"Succeeded", "Failed", "Error"}
    /\ lastReport.msg = "deployment_timed_out" =>
          /\ deployGets = max_deployment_retries
          /\ final_deployment_phase \notin {"Ready", "Failed", "Error"}

\* Succeeded on the last build attempt, Ready on the last deployment attempt.
C25_Witness ==
    /\ fn = "build" /\ pc = "done" /\ result = "True"
    /\ buildGets = max_retries /\ lastBuildResp = "Succeeded"
    /\ deployGets = max_deployment_retries /\ lastDeployResp = "Ready"

\* C26: one sleep follows each poll that did not end its loop by break and
\* none follows a poll that read a terminal phase, nor a build poll that
\* raised: a loop that is still running has slept once per poll, a loop
\* ended at poll k by a terminal phase has slept k-1 times, and a loop that
\* timed out has slept once per attempt, the last time after its last poll.
C26_SleepsPerPhase ==
    LET buildEnded == lastBuildResp \in {"Succeeded", "Failed", "Error",
                                         "404", "api_error", "exception"}
        buildSleeps == IF buildGets = 0 THEN 0
                       ELSE IF buildEnded THEN buildGets - 1 ELSE buildGets
        deploySleeps == sleeps - buildSleeps
    IN /\ (pc = "build_loop") => (~buildEnded /\ sleeps = buildGets)
       /\ (pc \in {"build_after", "done"} /\ deployGets = 0) =>
             sleeps = buildSleeps
       /\ (pc \in {"build_after", "done"} /\ buildGets > 0 /\ ~buildEnded) =>
             sleeps = max_retries
       /\ (pc = "deploy_loop") => deploySleeps = deployGets
       /\ (pc \in {"deploy_after", "done"} /\ deployGets > 0) =>
             deploySleeps = (IF lastDeployResp \in {"Ready", "Failed", "Error"}
                             THEN deployGets - 1
                             ELSE max_deployment_retries)

\* The build ended at poll 2 after one sleep; the deploy loop timed out
\* after a sleep for each of its attempts.
C26_Witness ==
    /\ fn = "build" /\ pc = "done" /\ buildGets = 2 /\ lastBuildResp = "Succeeded"
    /\ deployGets = max_deployment_retries /\ lastDeployResp = "404"
    /\ sleeps = 1 + max_deployment_retries

\* C27: the calls on the cluster come in the order create, build reads,
\* deployment reads.  No read is made before the create call has returned
\* successfully and no create follows a read; once a deployment read has
\* been made no build read follows and the build status held is left alone,
\* so what buildStatus says after Succeeded was read does not change the
\* outcome.
C27_CreateThenBuildThenDeploy ==
    /\ []((buildGets + deployGets > 0) => (creates = 1 /\ createOutcome = "created"))
    /\ []((fn = "build" /\ deployGets > 0) =>
             /\ buildGets >= 1
             /\ lastBuildResp = "Succeeded"
             /\ current_build_status = "Succeeded")
    /\ []((pc = "done" /\ deployGets > 0) =>
             (result = "True" <=> lastDeployResp = "Ready"))
    /\ [][(creates' > creates) => (buildGets = 0 /\ deployGets = 0)]_vars
    /\ [][(deployGets > 0 \/ deployGets' > 0) =>
             /\ buildGets' = buildGets
             /\ current_build_status' = current_build_status
             /\ lastBuildResp' = lastBuildResp]_vars

\* A deployment read showed buildStatus.phase Failed or Error after the
\* build loop had read Succeeded; the run returned True all the same.
C27_Witness ==
    /\ fn = "build" /\ pc = "done" /\ result = "True"
    /\ buildGets >= 1 /\ deployGets >= 2 /\ deployReadBuildFailed

\* C28: trigger_and_monitor_deployment_from_image has no build phase: it
\* never reads or holds a build status, goes from the create call to the
\* deploy loop, makes at most max_deployment_retries reads, stops at the
\* first read of Ready, Failed or Error, and returns True exactly when that
\* read was Ready, whatever buildStatus the objects carry.
C28_FromImageDeployOnly ==
    /\ [](fn = "image" =>
            /\ pc \notin {"build_loop", "build_after"}
            /\ buildGets = 0 /\ lastBuildResp = "none"
            /\ current_build_status = "Pending" /\ retries = 0
            /\ deployGets <= max_deployment_retries
            /\ (deployGets > 0) => createOutcome = "created"
            /\ (pc = "done" /\ result \in {"True", "False"}) =>
                 (result = "True" <=> (deployGets > 0 /\ lastDeployResp = "Ready")))
    /\ [][(fn = "image" /\ lastDeployResp \in {"Ready", "Failed", "Error"}) =>
             deployGets' = deployGets]_vars

\* The objects read said buildStatus.phase Failed or Error; the deployment
\* became Ready and the run returned True.
C28_Witness ==
    /\ fn = "image" /\ pc = "done" /\ result = "True"
    /\ deployGets >= 2 /\ lastDeployResp = "Ready" /\ deployReadBuildFailed

\* C21: get_identity_provider returns a SPIRE provider exactly when the
\* configured name (the argument, the environment variable when the argument
\* is None) is a spelling of "spire" and the SPIRE token file exists, a
\* ServiceAccount provider exactly when it is a spelling of "serviceaccount"
\* and that token file exists, and raises ProviderNotFoundError in every
\* other case; the other provider's token is never used instead.
C21_ExplicitSelectionNoFallback ==
    idp.pc = "done" =>
        LET configured == IF idp.provider_name = NoName THEN idp.env ELSE idp.provider_name
            isSpire == configured \in {<<"spire">>, <<" ", "SPIRE">>}
            isSa == configured \in {<<"serviceaccount">>, <<"ServiceAccount", " ">>}
        IN /\ idp.outcome = "SPIREProvider" <=> (isSpire /\ idp.spire_token)
           /\ idp.outcome = "ServiceAccountProvider" <=> (isSa /\ idp.sa_token)
           /\ idp.outcome = "ProviderNotFoundError"
                <=> ~((isSpire /\ idp.spire_token) \/ (isSa /\ idp.sa_token))

\* SPIRE was asked for through the environment, its token is missing and the
\* ServiceAccount token is there: the call raised.
C21_Witness ==
    /\ idp.pc = "done"
    /\ idp.provider_name = NoName
    /\ idp.env = <<" ", "SPIRE">>
    /\ ~idp.spire_token
    /\ idp.sa_token
    /\ idp.outcome = "ProviderNotFoundError"

\* C29: create_or_update_secret ends in one of two ways only: it returns
\* with the secret present and carrying the given body, or it reports the
\* error and exits with code 1; also when another actor deletes or creates
\* the secret between the create call and the patch call.
C29_ReturnsWithSecretOrExitsOne ==
    cus.pc = "done" =>
        \/ cus.outcome = "returned" /\ secret.present /\ secret.body = "given"
        \/ cus.outcome = "exit1" /\ cus.reported

\* C30: when the secret exists with a non-empty PHOENIX_SECRET before a run
\* of main that nobody interferes with, the secret main writes carries the
\* same PHOENIX_SECRET, and main generates a value only when the secret or
\* the key was absent or empty.
C30_PhoenixSecretPreserved ==
    LET had == /\ cus.before.present
               /\ cus.before.has_key
               /\ cus.before.PHOENIX_SECRET \notin {B64Encode("")}
    IN (cus.fn = "phoenix" /\ ~cus.interfered) =>
           /\ (cus.pc \in {"create", "patch", "done"} /\ cus.generated) => ~had
           /\ (cus.pc = "done" /\ cus.outcome = "returned" /\ had)
                => secret.PHOENIX_SECRET = cus.before.PHOENIX_SECRET

====
